---- MODULE Spec2Model ----
(***************************************************************************)
(* repository-words-grepper: the concurrent repository-analysis pipeline   *)
(* of src/main.go (per-match-line search) as a state machine, and its      *)
(* output parser as operators on character sequences.                      *)
(*                                                                         *)
(* A Go string is modelled as a sequence of one-character strings, so that *)
(* strings.Split, the colon split and the base-path removal are computed   *)
(* as the code computes them.                                              *)
(***************************************************************************)
EXTENDS Integers, Sequences, FiniteSets, TLC

(***************************************************************************)
(* Bounds of the model.                                                    *)
(***************************************************************************)
\* Largest number of configured repositories.
MaxRepos == 2
\* Largest spare capacity (cap - len) of cfg.ExcludeDirs' backing array.
MaxSpare == 1
\* Largest number of lines of a raw search output given to the parser.
MaxLines == 3

(***************************************************************************)
(* Strings.                                                                *)
(***************************************************************************)
NL == "\n"
COLON == ":"
SLASH == "/"

\* strings.Index: the 1-based position of the first occurrence of sep in s,
\* 0 when there is none.
Index(s, sep) ==
    LET hits == {i \in 1..(Len(s) - Len(sep) + 1) : SubSeq(s, i, i + Len(sep) - 1) = sep}
    IN  IF hits = {} THEN 0 ELSE CHOOSE i \in hits : \A j \in hits : i <= j

\* strings.Split(s, sep) for a non-empty sep: every substring between
\* occurrences of sep, found left to right.
RECURSIVE Split(_, _)
Split(s, sep) ==
    LET i == Index(s, sep)
    IN  IF i = 0 THEN <<s>>
        ELSE <<SubSeq(s, 1, i - 1)>> \o Split(SubSeq(s, i + Len(sep), Len(s)), sep)

\* strings.Join(elems, sep).
RECURSIVE Join(_, _)
Join(elems, sep) ==
    IF elems = <<>> THEN <<>>
    ELSE IF Len(elems) = 1 THEN elems[1]
    ELSE elems[1] \o sep \o Join(Tail(elems), sep)

(***************************************************************************)
(* The per-match-line parser of src/main.go.                               *)
(***************************************************************************)
\* A value returned normally, and the run-time panic "index out of range".
Returned(v) == [panicked |-> FALSE, val |-> v]
Panicked == [panicked |-> TRUE, val |-> <<>>]

\* splitOutputLine: <path>:<search-word>, or two empty strings unless the
\* split at every colon gives exactly two parts.
splitOutputLine(grepLine) ==
    LET split == Split(grepLine, <<COLON>>)
    IN  IF Len(split) = 2 THEN <<split[1], split[2]>> ELSE << <<>>, <<>> >>

\* removeBasePath: cleanName[1] of the split at basePath+"/". The guard
\* len(cleanName) >= 1 always holds, so a split with one part indexes out
\* of range.
removeBasePath(path, basePath) ==
    LET cleanName == Split(path, basePath \o <<SLASH>>)
    IN  IF Len(cleanName) >= 1
        THEN IF Len(cleanName) >= 2 THEN Returned(cleanName[2]) ELSE Panicked
        ELSE Returned(<<>>)

\* The first loop of parseGrepOutput over lines[k..]: pathCounts, a map
\* from relative path to count, or the panic of removeBasePath.
RECURSIVE countPaths(_, _, _, _)
countPaths(lines, k, basePath, pathCounts) ==
    IF k > Len(lines) THEN Returned(pathCounts)
    ELSE LET ps == splitOutputLine(lines[k])
         IN  IF ps[1] # <<>> /\ ps[2] # <<>>
             THEN LET key == removeBasePath(ps[1], basePath)
                  IN  IF key.panicked THEN Panicked
                      ELSE countPaths(lines, k + 1, basePath,
                               IF key.val \in DOMAIN pathCounts
                               THEN [pathCounts EXCEPT ![key.val] = @ + 1]
                               ELSE pathCounts @@ (key.val :> 1))
             ELSE countPaths(lines, k + 1, basePath, pathCounts)

\* The orders in which `for path, count := range pathCounts` can visit the
\* map: Go leaves the iteration order of a map unspecified.
RangeOrders(pathCounts) ==
    LET n == Cardinality(DOMAIN pathCounts)
    IN  {o \in [1..n -> DOMAIN pathCounts] : \A i, j \in 1..n : o[i] = o[j] => i = j}

\* parseGrepOutput(out, basePath): every value the call can return (one
\* per iteration order of the map), or the panic.
parseGrepOutput(out, basePath) ==
    LET counted == countPaths(Split(out, <<NL>>), 1, basePath, <<>>)
    IN  IF counted.panicked THEN {Panicked}
        ELSE {Returned([i \in DOMAIN o |-> [FileName |-> o[i], Count |-> counted.val[o[i]]]]) :
                 o \in RangeOrders(counted.val)}

(***************************************************************************)
(* The coordinator of src/main.go: configuration, units, barrier, report.  *)
(***************************************************************************)
GrepErrorCodeNoMatches == 1

\* Names of the configured repositories and the exclude each may carry, by
\* position in the configuration.
RepoNames == <<"A", "B", "C", "D">>
RepoExcludes == <<"dA", "dB", "dC", "dD">>
GlobalExclude == "vendor"
SearchWords == <<"fell">>

\* The temporary directory a unit clones into, as the path given to grep.
ClonePath == <<"r">>

\* Lines the search command prints for ClonePath.
LineA == <<"r", "/", "a", ":", "x">>
LineB == <<"r", "/", "b", ":", "x">>
\* The second half of a file name that contains a line break: the line
\* starts with no ClonePath.
LineStray == <<"b", ":", "x">>

\* The raw outputs of a search that exits with status 0.
RawOutputs ==
    { Join(<<LineA, LineB>>, <<NL>>),
      Join(<<LineA, LineA, LineA, LineA>>, <<NL>>),
      Join(<<LineA, LineStray>>, <<NL>>) }

\* What grepCmd.Output() can give: whether the command started, its exit
\* status, what it wrote to stderr and its output.
GrepRun(started, exitCode, stderr, out) ==
    [started |-> started, exitCode |-> exitCode, stderr |-> stderr, out |-> out]

\* What the command writes to stderr: nothing, or a diagnostic.
Diagnostic == "grep: diagnostic"
Stderrs == {"", Diagnostic}

\* The runs of a unit's search: lines found, none found, a failure with
\* its diagnostic, and a command that could not be started.
GrepRuns ==
    {GrepRun(TRUE, 0, "", o) : o \in RawOutputs}
        \cup {GrepRun(TRUE, GrepErrorCodeNoMatches, "", <<>>),
              GrepRun(TRUE, 2, Diagnostic, <<>>),
              GrepRun(FALSE, 0, "", <<>>)}

\* The zero value of Application.
ZeroApplication == [Name |-> "", CountSum |-> 0, GrepResults |-> <<>>]

\* The configurations loadConfig can return: with or without a global
\* exclude, n repositories, each with an exclude of its own or none with one.
Repository(i, own) ==
    [Name |-> RepoNames[i], ExcludeDirs |-> IF own THEN <<RepoExcludes[i]>> ELSE <<>>]

Configs ==
    {[ExcludeDirs |-> g, Repositories |-> [i \in 1..n |-> Repository(i, own)]] :
        g \in {<<>>, <<GlobalExclude>>}, n \in 0..MaxRepos, own \in BOOLEAN}

VARIABLES
    cfg,         \* the loaded configuration
    backing,     \* the backing array of cfg.ExcludeDirs, spare capacity included
    excludeDirs, \* per unit: the slice the append of line 65 returned
    args,        \* per unit: the exclude arguments built for the search
    result,      \* per unit: the result of analyzeRepo
    pc,          \* per unit: its position
    dir,         \* per unit: its temporary directory
    wg,          \* the WaitGroup counter
    mainpc,      \* position of main
    next,        \* index of the next unit main launches
    results,     \* the ResultFile of main
    file,        \* the report file on disk
    proc,        \* the process: running, exited (main returned) or aborted
    slotWrites,  \* per slot: how many times a unit has assigned it
    err,         \* per unit: whether acquisition or search gave it an error
    pin,         \* the lines of the raw output given to parseGrepOutput
    pres,        \* what parseGrepOutput did with them
    ppc,         \* position of the caller of parseGrepOutput
    gin,         \* the run of the search command given to grep called alone
    gout         \* what grep returned for it

mainVars == <<cfg, backing, excludeDirs, args, result, pc, dir, wg, mainpc, next,
              results, file, proc, slotWrites, err>>
parseVars == <<pin, pres, ppc>>
grepVars == <<gin, gout>>
callVars == <<parseVars, grepVars>>
vars == <<mainVars, callVars>>

Units == 1..Len(cfg.Repositories)

\* sumTotalCountForGrepResults.
RECURSIVE sumTotalCountForGrepResults(_)
sumTotalCountForGrepResults(grs) ==
    IF grs = <<>> THEN 0 ELSE grs[1].Count + sumTotalCountForGrepResults(Tail(grs))

\* calculateTotalCountSum over the Applications of a ResultFile.
RECURSIVE sumApplications(_)
sumApplications(apps) ==
    IF apps = <<>> THEN 0 ELSE apps[1].CountSum + sumApplications(Tail(apps))

\* A sum that starts at the second slot.
calculateTotalCountSumFromSecond(rf) ==
    IF rf.Applications = <<>> THEN 0 ELSE sumApplications(Tail(rf.Applications))

calculateTotalCountSum(rf) == sumApplications(rf.Applications)

\* A less function that orders ascending.
lessAscending(apps, i, j) == apps[i].CountSum < apps[j].CountSum

\* The less function given to sort.Slice.
less(apps, i, j) == apps[i].CountSum > apps[j].CountSum

\* sort.Slice on a slice of at most 12 elements is an insertion sort:
\* element i moves down while it is less than its predecessor.
RECURSIVE insertDown(_, _)
insertDown(apps, j) ==
    IF j > 1 /\ less(apps, j, j - 1)
    THEN insertDown([apps EXCEPT ![j] = apps[j - 1], ![j - 1] = apps[j]], j - 1)
    ELSE apps

RECURSIVE insertionSort(_, _)
insertionSort(apps, i) ==
    IF i > Len(apps) THEN apps ELSE insertionSort(insertDown(apps, i), i + 1)

sortOnAppCountSumDesc(rf) ==
    [rf EXCEPT !.Applications = insertionSort(rf.Applications, 2)]

\* grepExcludeDirStr.
grepExcludeDirStr(dirs) == [k \in DOMAIN dirs |-> <<"--exclude-dir=", dirs[k]>>]

\* The elements of a slice: of the shared backing array, or of its own.
SliceOf(sl) == IF sl.shared THEN SubSeq(backing, 1, sl.len) ELSE sl.own

\* What grep returns: a result and no error, an error with its message and
\* no result, or the panic of the parser.
GrepResultOf(val) == [err |-> FALSE, msg |-> <<>>, panicked |-> FALSE, val |-> val]
GrepErrorOf(text) ==
    [err |-> TRUE, msg |-> <<"unable to execute grep command: ", text>>,
     panicked |-> FALSE, val |-> <<>>]
GrepPanic == [err |-> FALSE, msg |-> <<>>, panicked |-> TRUE, val |-> <<>>]

\* A grep that takes every exit of the command for "no matches".
grepAnyExitIsNoMatches(path, run) ==
    IF ~run.started THEN {GrepErrorOf("exec")}
    ELSE IF run.exitCode # 0 THEN {GrepResultOf(<<>>)}
    ELSE {IF p.panicked THEN GrepPanic ELSE GrepResultOf(p.val) :
             p \in parseGrepOutput(run.out, path)}

\* grep(path, ...) once the command has run: the values it can return.
grep(path, run) ==
    IF ~run.started THEN {GrepErrorOf("exec")}
    ELSE IF run.exitCode # 0
    THEN IF run.exitCode = GrepErrorCodeNoMatches
         THEN {GrepResultOf(<<>>)}
         ELSE {GrepErrorOf(run.stderr)}
    ELSE {IF p.panicked THEN GrepPanic ELSE GrepResultOf(p.val) :
             p \in parseGrepOutput(run.out, path)}

Init ==
    /\ cfg \in Configs
    /\ \E spare \in 0..MaxSpare :
          /\ cfg.ExcludeDirs = <<>> => spare = 0
          /\ backing = cfg.ExcludeDirs \o [k \in 1..spare |-> ""]
    /\ excludeDirs = [i \in Units |-> [shared |-> FALSE, len |-> 0, own |-> <<>>]]
    /\ args = [i \in Units |-> <<>>]
    /\ result = [i \in Units |-> <<>>]
    /\ pc = [i \in Units |-> "idle"]
    /\ dir = [i \in Units |-> "none"]
    /\ wg = Len(cfg.Repositories)
    /\ mainpc = "launch"
    /\ next = 1
    /\ results = [TotalApplications |-> Len(cfg.Repositories),
                  SearchWords |-> SearchWords,
                  TotalCountSum |-> 0,
                  Applications |-> [i \in Units |-> ZeroApplication]]
    /\ file = [written |-> FALSE, data |-> <<>>]
    /\ proc = "running"
    /\ slotWrites = [i \in Units |-> 0]
    /\ err = [i \in Units |-> FALSE]
    /\ pin = <<>>
    /\ pres = Returned(<<>>)
    /\ ppc = "unused"
    /\ gin = GrepRun(FALSE, 0, "", <<>>)
    /\ gout = [called |-> FALSE, ret |-> GrepResultOf(<<>>)]

\* main, lines 62-76: the go statement for the next repository.
Launch ==
    /\ proc = "running" /\ mainpc = "launch"
    /\ IF next \in Units
       THEN /\ pc' = [pc EXCEPT ![next] = "append"]
            /\ next' = next + 1
            /\ UNCHANGED mainpc
       ELSE /\ mainpc' = "wait"
            /\ UNCHANGED <<pc, next>>
    /\ UNCHANGED <<callVars, cfg, err, backing, excludeDirs, args, result, dir, wg,
                   results, file, proc, slotWrites>>

\* Line 65: append(cfg.ExcludeDirs, cfg.Repositories[index].ExcludeDirs...)
\* writes into the backing array when the capacity allows, and copies to a
\* new array otherwise.
AppendExcludes(i) ==
    /\ proc = "running" /\ pc[i] = "append"
    /\ LET own == cfg.Repositories[i].ExcludeDirs
           n == Len(cfg.ExcludeDirs)
       IN  IF n + Len(own) <= Len(backing)
           THEN /\ backing' = [k \in DOMAIN backing |->
                                  IF k > n /\ k <= n + Len(own) THEN own[k - n]
                                  ELSE backing[k]]
                /\ excludeDirs' = [excludeDirs EXCEPT
                                      ![i] = [shared |-> TRUE, len |-> n + Len(own), own |-> <<>>]]
           ELSE /\ excludeDirs' = [excludeDirs EXCEPT
                                      ![i] = [shared |-> FALSE, len |-> n + Len(own),
                                              own |-> cfg.ExcludeDirs \o own]]
                /\ UNCHANGED backing
    /\ pc' = [pc EXCEPT ![i] = "tempdir"]
    /\ UNCHANGED <<callVars, cfg, err, args, result, dir, wg, mainpc, next, results,
                   file, proc, slotWrites>>

\* cloneRepo, lines 227-230: ioutil.TempDir; its error comes back through
\* analyzeRepo to the log.Fatalf of line 67.
TempDir(i) ==
    /\ proc = "running" /\ pc[i] = "tempdir"
    /\ \E ok \in BOOLEAN :
          /\ IF ok
             THEN /\ dir' = [dir EXCEPT ![i] = "created"]
                  /\ pc' = [pc EXCEPT ![i] = "clone"]
             ELSE /\ pc' = [pc EXCEPT ![i] = "fatal"]
                  /\ UNCHANGED dir
          /\ err' = [err EXCEPT ![i] = ~ok]
    /\ UNCHANGED <<callVars, cfg, backing, excludeDirs, args, result, wg, mainpc,
                   next, results, file, proc, slotWrites>>

\* cloneRepo, lines 240-247: git clone; on failure removeDir() and
\* log.Fatal, on success the directory is returned to analyzeRepo.
Clone(i) ==
    /\ proc = "running" /\ pc[i] = "clone"
    /\ \E ok \in BOOLEAN :
          /\ IF ok
             THEN /\ dir' = [dir EXCEPT ![i] = "acquired"]
                  /\ pc' = [pc EXCEPT ![i] = "grep"]
             ELSE /\ dir' = [dir EXCEPT ![i] = "removed"]
                  /\ pc' = [pc EXCEPT ![i] = "fatal"]
          /\ err' = [err EXCEPT ![i] = ~ok]
    /\ UNCHANGED <<callVars, cfg, backing, excludeDirs, args, result, wg, mainpc,
                   next, results, file, proc, slotWrites>>

\* analyzeRepo, lines 105-113: grep builds its arguments from excludeDirs,
\* runs the command and parses; the deferred removeDir runs as analyzeRepo
\* returns or unwinds.
Grep(i) ==
    /\ proc = "running" /\ pc[i] = "grep"
    /\ args' = [args EXCEPT ![i] = grepExcludeDirStr(SliceOf(excludeDirs[i]))]
    /\ dir' = [dir EXCEPT ![i] = "removed"]
    /\ \E run \in GrepRuns : \E r \in grep(ClonePath, run) :
          /\ result' = [result EXCEPT ![i] = r.val]
          /\ err' = [err EXCEPT ![i] = r.err]
          /\ pc' = [pc EXCEPT ![i] = IF r.panicked THEN "unwind"
                                     ELSE IF r.err THEN "fatal" ELSE "store"]
    /\ UNCHANGED <<callVars, cfg, backing, excludeDirs, wg, mainpc, next, results,
                   file, proc, slotWrites>>

\* Lines 69-73: the unit assigns results.Applications[index].
Store(i) ==
    /\ proc = "running" /\ pc[i] = "store"
    /\ results' = [results EXCEPT !.Applications[i] =
                      [Name |-> cfg.Repositories[i].Name,
                       CountSum |-> sumTotalCountForGrepResults(result[i]),
                       GrepResults |-> result[i]]]
    /\ slotWrites' = [slotWrites EXCEPT ![i] = @ + 1]
    /\ pc' = [pc EXCEPT ![i] = "done"]
    /\ UNCHANGED <<callVars, cfg, err, backing, excludeDirs, args, result, dir, wg,
                   mainpc, next, file, proc>>

\* A unit that returns without the deferred wg.Done().
DoneKeepsCounter(i) ==
    /\ proc = "running" /\ pc[i] = "done"
    /\ pc' = [pc EXCEPT ![i] = "finished"]
    /\ UNCHANGED <<callVars, cfg, err, backing, excludeDirs, args, result, dir, wg,
                   mainpc, next, results, file, proc, slotWrites>>

\* Line 64: the deferred wg.Done() as the unit returns.
Done(i) ==
    /\ proc = "running" /\ pc[i] = "done"
    /\ wg' = wg - 1
    /\ pc' = [pc EXCEPT ![i] = "finished"]
    /\ UNCHANGED <<callVars, cfg, err, backing, excludeDirs, args, result, dir,
                   mainpc, next, results, file, proc, slotWrites>>

\* Line 64 during a panic: the deferred wg.Done() runs while the unit
\* unwinds, before the runtime ends the process.
Unwind(i) ==
    /\ proc = "running" /\ pc[i] = "unwind"
    /\ wg' = wg - 1
    /\ pc' = [pc EXCEPT ![i] = "crash"]
    /\ UNCHANGED <<callVars, cfg, err, backing, excludeDirs, args, result, dir,
                   mainpc, next, results, file, proc, slotWrites>>

\* The runtime ends the process after an unrecovered panic.
Crash(i) ==
    /\ proc = "running" /\ pc[i] = "crash"
    /\ proc' = "aborted"
    /\ UNCHANGED <<callVars, cfg, err, backing, excludeDirs, args, result, pc, dir,
                   wg, mainpc, next, results, file, slotWrites>>

\* An error that is logged and returned from instead of ending the process:
\* the deferred wg.Done() runs.
FatalReturns(i) ==
    /\ proc = "running" /\ pc[i] = "fatal"
    /\ wg' = wg - 1
    /\ pc' = [pc EXCEPT ![i] = "finished"]
    /\ UNCHANGED <<callVars, cfg, err, backing, excludeDirs, args, result, dir, mainpc,
                   next, results, file, proc, slotWrites>>

\* log.Fatalf of line 67 and log.Fatal of line 244: os.Exit(1), no
\* deferred call runs.
Fatal(i) ==
    /\ proc = "running" /\ pc[i] = "fatal"
    /\ proc' = "aborted"
    /\ UNCHANGED <<callVars, cfg, err, backing, excludeDirs, args, result, pc, dir,
                   wg, mainpc, next, results, file, slotWrites>>

\* Line 78: wg.Wait() returns when the counter is zero.
Wait ==
    /\ proc = "running" /\ mainpc = "wait"
    /\ wg = 0
    /\ mainpc' = "sum"
    /\ UNCHANGED <<callVars, cfg, err, backing, excludeDirs, args, result, pc, dir,
                   wg, next, results, file, proc, slotWrites>>

\* Line 79.
Sum ==
    /\ proc = "running" /\ mainpc = "sum"
    /\ results' = [results EXCEPT !.TotalCountSum = calculateTotalCountSum(results)]
    /\ mainpc' = "sort"
    /\ UNCHANGED <<callVars, cfg, err, backing, excludeDirs, args, result, pc, dir,
                   wg, next, file, proc, slotWrites>>

\* Line 80, the argument: sortOnAppCountSumDesc sorts the slots in place.
Sort ==
    /\ proc = "running" /\ mainpc = "sort"
    /\ results' = sortOnAppCountSumDesc(results)
    /\ mainpc' = "write"
    /\ UNCHANGED <<callVars, cfg, err, backing, excludeDirs, args, result, pc, dir,
                   wg, next, file, proc, slotWrites>>

\* Lines 80-83: writeResult; on an error log.Fatal, otherwise main returns
\* and the process ends.
Write ==
    /\ proc = "running" /\ mainpc = "write"
    /\ \E ok \in BOOLEAN :
          IF ok
          THEN /\ file' = [written |-> TRUE, data |-> results]
               /\ proc' = "exited"
          ELSE /\ proc' = "aborted"
               /\ UNCHANGED file
    /\ mainpc' = "end"
    /\ UNCHANGED <<callVars, cfg, err, backing, excludeDirs, args, result, pc, dir,
                   wg, next, results, slotWrites>>

Next ==
    \/ Launch
    \/ Wait
    \/ Sum
    \/ Sort
    \/ Write
    \/ \E i \in Units : AppendExcludes(i)
    \/ \E i \in Units : TempDir(i)
    \/ \E i \in Units : Clone(i)
    \/ \E i \in Units : Grep(i)
    \/ \E i \in Units : Store(i)
    \/ \E i \in Units : Done(i)
    \/ \E i \in Units : Unwind(i)
    \/ \E i \in Units : Crash(i)
    \/ \E i \in Units : Fatal(i)

Spec == Init /\ [][Next]_vars

(***************************************************************************)
(* Properties of the coordinator.                                          *)
(***************************************************************************)
Terminated == proc # "running"
PastBarrier == mainpc \in {"sum", "sort", "write", "end"}

\* C1: once acquisition or search has failed for a unit, main is still
\* before or at the barrier, no report is on disk and the process never
\* ends by main returning.
C1_FailureNeverPersists ==
    (\E i \in Units : err[i]) =>
        /\ ~file.written
        /\ ~PastBarrier
        /\ proc # "exited"

\* C1 witness: the run aborted on one unit's failure after another unit had
\* written its slot and finished.
C1_Witness ==
    /\ proc = "aborted"
    /\ \E i, j \in Units : err[i] /\ pc[j] = "finished" /\ slotWrites[j] = 1

\* C2 as claimed: in every terminal state no directory that cloneRepo
\* returned to analyzeRepo is left unreleased.
C2_AcquiredReleasedAtExit ==
    Terminated => \A i \in Units : dir[i] # "acquired"

\* The exclude list the claim expects the search of repository i to get.
ExpectedExcludes(i) == cfg.ExcludeDirs \o cfg.Repositories[i].ExcludeDirs

\* A unit whose search arguments have been built.
Searched(i) == pc[i] \in {"store", "done", "finished", "unwind", "crash"}

\* C3 as claimed: the exclude arguments of the search for repository i are
\* the global excludes followed by repository i's own.
C3_ExcludesAreOwn ==
    \A i \in Units : Searched(i) => args[i] = grepExcludeDirStr(ExpectedExcludes(i))

\* C4 as claimed: main is past the barrier only when every unit has written
\* its slot.
C4_AggregationAfterAllWritten ==
    PastBarrier => \A i \in Units : slotWrites[i] = 1

\* C5 as claimed: each slot is written at most once, and only by its own
\* unit, and at the barrier slot i holds the name of repository i.
C5_SlotHoldsOwnRepository ==
    /\ \A i \in Units : slotWrites[i] <= 1
    /\ \A i \in Units :
           slotWrites[i] = 0 /\ ~PastBarrier => results.Applications[i] = ZeroApplication
    /\ mainpc = "sum" =>
           \A i \in Units : results.Applications[i].Name = cfg.Repositories[i].Name

\* C6: in a persisted report totalCountSum is the sum of the analyses'
\* countSum, and each countSum is the sum of its own file counts.
C6_SumsAgree ==
    file.written =>
        /\ file.data.TotalCountSum = sumApplications(file.data.Applications)
        /\ \A k \in DOMAIN file.data.Applications :
               file.data.Applications[k].CountSum =
                   sumTotalCountForGrepResults(file.data.Applications[k].GrepResults)

\* C6 witness: a persisted report of two repositories with several files.
C6_Witness ==
    /\ file.written
    /\ Len(file.data.Applications) = 2
    /\ file.data.TotalCountSum = 6
    /\ \E k \in 1..2 : Len(file.data.Applications[k].GrepResults) = 2

\* C7: in a persisted report the analyses are in non-increasing order of
\* countSum.
C7_SortedDescending ==
    file.written =>
        \A k \in 1..(Len(file.data.Applications) - 1) :
            file.data.Applications[k].CountSum >= file.data.Applications[k + 1].CountSum

\* C7 witness: repositories with countSum 2 and 4 give totalCountSum 6 and
\* the second repository first.
C7_Witness ==
    /\ file.written
    /\ Len(file.data.Applications) = 2
    /\ file.data.TotalCountSum = 6
    /\ file.data.Applications[1].Name = RepoNames[2]
    /\ file.data.Applications[1].CountSum = 4
    /\ file.data.Applications[2].Name = RepoNames[1]
    /\ file.data.Applications[2].CountSum = 2

(***************************************************************************)
(* parseGrepOutput called on its own, as TestParseGrepOutput calls it.     *)
(***************************************************************************)
\* The base path of the call.
BasePath == <<"r">>

\* Path parts and token parts of the lines: a file under the base path,
\* another, a path outside it, a path whose relative part contains the
\* base path again, and a token with a colon of its own.
ParsePaths ==
    { <<>>,
      <<"r", "/", "a">>,
      <<"r", "/", "b">>,
      <<"b">>,
      <<"r", "/", "b", "r", "/", "a">> }

ParseTokens == { <<>>, <<"x">>, <<"x", ":", "y">> }

\* The lines of a raw output: path:token, the empty line and a line with
\* no colon.
ParseLines ==
    {p \o <<COLON>> \o t : p \in ParsePaths, t \in ParseTokens}
        \cup { <<>>, <<"r", "/", "a">> }

\* No coordinator runs during the call.
MainAbsent ==
    /\ cfg = [ExcludeDirs |-> <<>>, Repositories |-> <<>>]
    /\ backing = <<>>
    /\ excludeDirs = <<>>
    /\ args = <<>>
    /\ result = <<>>
    /\ pc = <<>>
    /\ dir = <<>>
    /\ wg = 0
    /\ mainpc = "absent"
    /\ next = 1
    /\ results = [TotalApplications |-> 0, SearchWords |-> <<>>, TotalCountSum |-> 0,
                  Applications |-> <<>>]
    /\ file = [written |-> FALSE, data |-> <<>>]
    /\ proc = "test"
    /\ slotWrites = <<>>
    /\ err = <<>>

ParseInit ==
    /\ MainAbsent
    /\ pin = <<>>
    /\ pres = Returned(<<>>)
    /\ ppc = "input"
    /\ gin = GrepRun(FALSE, 0, "", <<>>)
    /\ gout = [called |-> FALSE, ret |-> GrepResultOf(<<>>)]

\* The caller builds the raw output line by line (strings.Join of the test).
AddLine ==
    /\ ppc = "input"
    /\ Len(pin) < MaxLines
    /\ \E l \in ParseLines : pin' = Append(pin, l)
    /\ UNCHANGED <<mainVars, grepVars, pres, ppc>>

\* parsed := parseGrepOutput(strings.Join(testInput, "\n"), basePath).
ParseCall ==
    /\ ppc = "input"
    /\ pres' \in parseGrepOutput(Join(pin, <<NL>>), BasePath)
    /\ ppc' = "parsed"
    /\ UNCHANGED <<mainVars, grepVars, pin>>

ParseNext ==
    \/ AddLine
    \/ ParseCall

SpecParse == ParseInit /\ [][ParseNext]_vars

(***************************************************************************)
(* Properties of the per-match-line parser.                                *)
(***************************************************************************)
Parsed == ppc = "parsed"

\* A line split at its first colon: <<path, token>>, or two empty parts
\* when the line has no colon.
SplitAtFirstColon(line) ==
    LET i == Index(line, <<COLON>>)
    IN  IF i = 0 THEN << <<>>, <<>> >>
        ELSE <<SubSeq(line, 1, i - 1), SubSeq(line, i + 1, Len(line))>>

\* A well-formed path:token line: both parts of the first-colon split are
\* non-empty.
WellFormed(line) ==
    SplitAtFirstColon(line)[1] # <<>> /\ SplitAtFirstColon(line)[2] # <<>>

\* The path below the base path: what is left of path after the leading
\* BasePath/ (empty when path does not start with it).
Prefix == BasePath \o <<SLASH>>
RelativePath(path) ==
    IF Len(path) > Len(Prefix) /\ SubSeq(path, 1, Len(Prefix)) = Prefix
    THEN SubSeq(path, Len(Prefix) + 1, Len(path))
    ELSE <<>>

\* The lines with exactly one colon and a non-empty part on each side of
\* it: the lines parseGrepOutput counts.
CountedLines ==
    {k \in DOMAIN pin : splitOutputLine(pin[k])[1] # <<>> /\ splitOutputLine(pin[k])[2] # <<>>}

\* The counted input lines that carry the relative path P.
LinesOf(P) == {k \in CountedLines : RelativePath(splitOutputLine(pin[k])[1]) = P}

\* The relative paths of the counted input lines.
RelativePaths == {RelativePath(splitOutputLine(pin[k])[1]) : k \in CountedLines} \ { <<>> }

\* The entries of the result with file name f.
EntriesOf(f) == {e \in DOMAIN pres.val : pres.val[e].FileName = f}

\* C8 as claimed: a relative path P on k well-formed lines (here even with
\* one colon only) has exactly one entry in the result, with count k, and
\* no file name has two entries.
C8_OneEntryPerPath ==
    Parsed =>
        /\ \A P \in RelativePaths :
               /\ ~pres.panicked
               /\ Cardinality(EntriesOf(P)) = 1
               /\ \A e \in EntriesOf(P) : pres.val[e].Count = Cardinality(LinesOf(P))
        /\ \A e1, e2 \in DOMAIN pres.val :
               pres.val[e1].FileName = pres.val[e2].FileName => e1 = e2

\* The count the result gives file name f: 0 when it has no entry.
CountOf(f) ==
    IF EntriesOf(f) = {} THEN 0 ELSE pres.val[CHOOSE e \in EntriesOf(f) : TRUE].Count

\* The lines that contribute to file name f if a line counts exactly when
\* both parts of its first-colon split are non-empty.
FirstColonLinesOf(f) ==
    {k \in DOMAIN pin :
        /\ WellFormed(pin[k])
        /\ removeBasePath(SplitAtFirstColon(pin[k])[1], BasePath) = Returned(f)}

\* The file names the input or the result mentions.
MentionedNames ==
    {pres.val[e].FileName : e \in DOMAIN pres.val}
        \cup {removeBasePath(SplitAtFirstColon(pin[k])[1], BasePath).val :
                 k \in {j \in DOMAIN pin : WellFormed(pin[j])}}

\* C9 as claimed: a line contributes one count to its path if and only if
\* both parts of its split at the first colon are non-empty.
C9_FirstColonDecides ==
    Parsed /\ ~pres.panicked =>
        \A f \in MentionedNames : CountOf(f) = Cardinality(FirstColonLinesOf(f))

\* The output lies fully outside the base path: it has counted lines and
\* no path of one contains BasePath/.
FullyOutside ==
    /\ CountedLines # {}
    /\ \A k \in CountedLines : Index(splitOutputLine(pin[k])[1], Prefix) = 0

\* C10 as claimed: on output fully outside the base path, parse returns
\* normally and every relative name is the empty string.
C10_OutsideGivesEmptyNames ==
    Parsed /\ FullyOutside =>
        /\ ~pres.panicked
        /\ pres.val # <<>>
        /\ \A e \in DOMAIN pres.val : pres.val[e].FileName = <<>>

\* C11 as claimed: for a counted line whose path is BasePath/rel with rel
\* non-empty, removeBasePath returns exactly rel, and the result names it.
C11_RemovesOnlyLeadingPrefix ==
    Parsed =>
        \A k \in CountedLines :
            LET path == splitOutputLine(pin[k])[1]
            IN  RelativePath(path) # <<>> =>
                    /\ removeBasePath(path, BasePath) = Returned(RelativePath(path))
                    /\ ~pres.panicked => EntriesOf(RelativePath(path)) # {}

(***************************************************************************)
(* grep called on its own, as TestGrep calls it.                           *)
(***************************************************************************)
\* Exit statuses of the search command: lines selected, none selected, an
\* error.
ExitCodes == {0, GrepErrorCodeNoMatches, 2}

\* The command either does not start, or exits with a status and what it
\* wrote to stderr; its output is built line by line before the call.
GrepInit ==
    /\ MainAbsent
    /\ pin = <<>>
    /\ pres = Returned(<<>>)
    /\ ppc = "input"
    /\ gin \in {GrepRun(FALSE, 0, "", <<>>)}
                  \cup {GrepRun(TRUE, c, e, <<>>) : c \in ExitCodes, e \in Stderrs}
    /\ gout = [called |-> FALSE, ret |-> GrepResultOf(<<>>)]

\* result, err := grep(path, searchWords, excludeDirs). A command that did
\* not start or that selected no line has printed nothing.
GrepCall ==
    /\ ppc = "input"
    /\ ~gin.started \/ gin.exitCode = GrepErrorCodeNoMatches => pin = <<>>
    /\ gin' = [gin EXCEPT !.out = Join(pin, <<NL>>)]
    /\ \E r \in grep(BasePath, gin') : gout' = [called |-> TRUE, ret |-> r]
    /\ ppc' = "called"
    /\ UNCHANGED <<mainVars, pin, pres>>

GrepNext ==
    \/ AddLine
    \/ GrepCall

SpecGrep == GrepInit /\ [][GrepNext]_vars

(***************************************************************************)
(* Properties of the searcher.                                             *)
(***************************************************************************)
EmptyNoError(ret) == ~ret.err /\ ~ret.panicked /\ ret.val = <<>>
ErrorWithDiagnostic(ret) ==
    ret.err /\ ret.val = <<>> /\ ret.msg[Len(ret.msg)] = gin.stderr

\* C12 as claimed: grep returns an empty result and no error exactly when
\* the command exited with status 1 and wrote nothing to stderr; every
\* other non-zero exit gives an error with the diagnostic and no result.
C12_NoMatchesNeedsEmptyStderr ==
    gout.called /\ gin.started /\ gin.exitCode # 0 =>
        IF gin.exitCode = GrepErrorCodeNoMatches /\ gin.stderr = ""
        THEN EmptyNoError(gout.ret)
        ELSE ErrorWithDiagnostic(gout.ret)

\* C12 amended: among the non-zero exits, status 1 gives an empty result
\* and no error whatever the command wrote to stderr, and every other
\* status gives an error with the diagnostic and no result.
C12_ExitStatusDecides ==
    gout.called /\ gin.started /\ gin.exitCode # 0 =>
        IF gin.exitCode = GrepErrorCodeNoMatches
        THEN EmptyNoError(gout.ret)
        ELSE ErrorWithDiagnostic(gout.ret)

\* C12 witness: a command that exited with status 1 and a diagnostic on
\* stderr, for which grep returned an empty result and no error.
C12_Witness ==
    /\ gout.called /\ gin.started
    /\ gin.exitCode = GrepErrorCodeNoMatches
    /\ gin.stderr = Diagnostic
    /\ EmptyNoError(gout.ret)

(***************************************************************************)
(* Order of the per-match-line parser's result.                            *)
(***************************************************************************)
\* The first counted input line that gives file name f.
FirstLineOf(f) ==
    LET ks == {k \in CountedLines :
                  removeBasePath(splitOutputLine(pin[k])[1], BasePath) = Returned(f)}
    IN  CHOOSE k \in ks : \A j \in ks : k <= j

\* C13 as claimed: the entries of the result are in the order in which
\* their paths first appear in the raw output.
C13_FirstAppearanceOrder ==
    Parsed /\ ~pres.panicked =>
        \A e1, e2 \in DOMAIN pres.val :
            e1 < e2 => FirstLineOf(pres.val[e1].FileName) < FirstLineOf(pres.val[e2].FileName)

(***************************************************************************)
(* The count-mode implementation (src/unnamed/part_001): grep --count      *)
(* prints <path>:<count>, one line per file.                               *)
(***************************************************************************)
Digits == <<"0", "1", "2", "3", "4", "5", "6", "7", "8", "9">>
IsDigit(c) == \E d \in DOMAIN Digits : Digits[d] = c
DigitValue(c) == (CHOOSE d \in DOMAIN Digits : Digits[d] = c) - 1

\* The value of a sequence of digits, base 10.
RECURSIVE DecimalValue(_)
DecimalValue(ds) ==
    IF ds = <<>> THEN 0
    ELSE 10 * DecimalValue(SubSeq(ds, 1, Len(ds) - 1)) + DigitValue(ds[Len(ds)])

\* strconv.Atoi: an optional sign and at least one digit, or an error.
Atoi(str) ==
    LET signed == str # <<>> /\ str[1] \in {"+", "-"}
        ds == IF signed THEN Tail(str) ELSE str
    IN  IF ds = <<>> \/ \E k \in DOMAIN ds : ~IsDigit(ds[k])
        THEN [err |-> TRUE, val |-> 0]
        ELSE [err |-> FALSE,
              val |-> IF signed /\ str[1] = "-" THEN 0 - DecimalValue(ds) ELSE DecimalValue(ds)]

\* isNoMatches.
isNoMatches(count) == count = <<"0">>

\* The loop of the count-mode parseGrepOutput over lines[k..]. grStr[1] is
\* read whenever grStr[0] is not empty, also when the split has one part;
\* a count that strconv.Atoi rejects returns nil at once.
RECURSIVE parseCountLines(_, _, _, _)
parseCountLines(lines, k, pathGrepped, grs) ==
    IF k > Len(lines) THEN Returned(grs)
    ELSE LET grStr == Split(lines[k], <<COLON>>)
         IN  IF grStr[1] = <<>> THEN parseCountLines(lines, k + 1, pathGrepped, grs)
             ELSE IF Len(grStr) < 2 THEN Panicked
             ELSE IF grStr[2] = <<>> \/ isNoMatches(grStr[2])
                  THEN parseCountLines(lines, k + 1, pathGrepped, grs)
             ELSE LET count == Atoi(grStr[2])
                      name == removeBasePath(grStr[1], pathGrepped)
                  IN  IF count.err THEN Returned(<<>>)
                      ELSE IF name.panicked THEN Panicked
                      ELSE parseCountLines(lines, k + 1, pathGrepped,
                               Append(grs, [FileName |-> name.val, Count |-> count.val]))

\* The count-mode parseGrepOutput(out, pathGrepped).
parseGrepOutputCount(out, pathGrepped) ==
    parseCountLines(Split(out, <<NL>>), 1, pathGrepped, <<>>)

\* Count parts of the lines: none, the count of a file without a match,
\* counts of one and two digits, and text that is no number.
CountTokens == { <<>>, <<"0">>, <<"3">>, <<"1", "2">>, <<"x">> }

\* The lines of a raw count-mode output: path:count, the empty line and a
\* line with no colon.
CountLines ==
    {p \o <<COLON>> \o t : p \in ParsePaths, t \in CountTokens}
        \cup { <<>>, <<"r", "/", "a">> }

\* The caller builds the raw count-mode output line by line.
AddCountLine ==
    /\ ppc = "input"
    /\ Len(pin) < MaxLines
    /\ \E l \in CountLines : pin' = Append(pin, l)
    /\ UNCHANGED <<mainVars, grepVars, pres, ppc>>

\* parsed := parseGrepOutput(strings.Join(testInput, "\n"), basePath), on
\* the count-mode implementation.
ParseCountCall ==
    /\ ppc = "input"
    /\ pres' = parseGrepOutputCount(Join(pin, <<NL>>), BasePath)
    /\ ppc' = "parsed"
    /\ UNCHANGED <<mainVars, grepVars, pin>>

ParseCountNext ==
    \/ AddCountLine
    \/ ParseCountCall

SpecCount == ParseInit /\ [][ParseCountNext]_vars

(***************************************************************************)
(* Properties of the count-mode parser.                                    *)
(***************************************************************************)
\* The path part and the count part of a count-mode line.
PathPart(line) == SplitAtFirstColon(line)[1]
CountPart(line) == SplitAtFirstColon(line)[2]

\* A decimal count: digits only.
IsDecimal(str) == str # <<>> /\ \A k \in DOMAIN str : IsDigit(str[k])

\* A line path:n for a file under the base path, n a decimal count.
IsCountLine(line) == RelativePath(PathPart(line)) # <<>> /\ IsDecimal(CountPart(line))

\* Every line of the input is a line path:n or empty.
AllCountLines == \A k \in DOMAIN pin : pin[k] = <<>> \/ IsCountLine(pin[k])

\* The entries the lines path:n with n positive give, in input order.
RECURSIVE PositiveEntries(_)
PositiveEntries(lines) ==
    IF lines = <<>> THEN <<>>
    ELSE LET l == lines[1]
         IN  (IF IsCountLine(l) /\ DecimalValue(CountPart(l)) > 0
              THEN <<[FileName |-> RelativePath(PathPart(l)),
                      Count |-> DecimalValue(CountPart(l))]>>
              ELSE <<>>) \o PositiveEntries(Tail(lines))

\* C14 as claimed: on an output of lines path:n, the result is exactly one
\* entry (relative path, n) per line with n positive, in input order, and
\* so has no line path:0 and no entry with count 0.
C14_PositiveCountsInOrder ==
    Parsed /\ AllCountLines =>
        /\ ~pres.panicked
        /\ pres.val = PositiveEntries(pin)
        /\ \A e \in DOMAIN pres.val : pres.val[e].Count # 0

(***************************************************************************)
(* The count-mode coordinator: main of the count-mode implementation.      *)
(* Launching, acquisition, the slot write, the barrier and the write of    *)
(* the report are the same statements as in the per-match-line main; the   *)
(* search runs grep --count and the report is written as it stands.        *)
(***************************************************************************)
\* Outputs of grep --count: a file with matches and one without, a larger
\* count, a count that is no number, and a line without a colon.
CountRawOutputs ==
    { <<"r", "/", "a", ":", "3", NL, "r", "/", "b", ":", "0">>,
      <<"r", "/", "a", ":", "1", "2">>,
      <<"r", "/", "a", ":", "3", NL, "r", "/", "b", ":", "x">>,
      <<"r", "/", "a", ":", "3", NL, "r", "/", "c">> }

CountGrepRuns ==
    {GrepRun(TRUE, 0, "", o) : o \in CountRawOutputs}
        \cup {GrepRun(TRUE, GrepErrorCodeNoMatches, "", <<>>),
              GrepRun(TRUE, 2, Diagnostic, <<>>),
              GrepRun(FALSE, 0, "", <<>>)}

\* grep of the count-mode implementation once the command has run.
grepCount(path, run) ==
    IF ~run.started THEN GrepErrorOf("exec")
    ELSE IF run.exitCode # 0
    THEN IF run.exitCode = GrepErrorCodeNoMatches
         THEN GrepResultOf(<<>>)
         ELSE GrepErrorOf(run.stderr)
    ELSE LET p == parseGrepOutputCount(run.out, path)
         IN  IF p.panicked THEN GrepPanic ELSE GrepResultOf(p.val)

\* analyzeRepo of the count-mode implementation: grep --count and the
\* deferred removeDir.
GrepCount(i) ==
    /\ proc = "running" /\ pc[i] = "grep"
    /\ args' = [args EXCEPT ![i] = grepExcludeDirStr(SliceOf(excludeDirs[i]))]
    /\ dir' = [dir EXCEPT ![i] = "removed"]
    /\ \E run \in CountGrepRuns :
          LET r == grepCount(ClonePath, run)
          IN  /\ result' = [result EXCEPT ![i] = r.val]
              /\ err' = [err EXCEPT ![i] = r.err]
              /\ pc' = [pc EXCEPT ![i] = IF r.panicked THEN "unwind"
                                         ELSE IF r.err THEN "fatal" ELSE "store"]
    /\ UNCHANGED <<callVars, cfg, backing, excludeDirs, wg, mainpc, next, results,
                   file, proc, slotWrites>>

\* Line 79 of the count-mode main; line 80 passes results to writeResult
\* as they are.
SumCount ==
    /\ proc = "running" /\ mainpc = "sum"
    /\ results' = [results EXCEPT !.TotalCountSum = calculateTotalCountSum(results)]
    /\ mainpc' = "write"
    /\ UNCHANGED <<callVars, cfg, err, backing, excludeDirs, args, result, pc, dir,
                   wg, next, file, proc, slotWrites>>

CountMainNext ==
    \/ Launch
    \/ Wait
    \/ SumCount
    \/ Write
    \/ \E i \in Units : AppendExcludes(i)
    \/ \E i \in Units : TempDir(i)
    \/ \E i \in Units : Clone(i)
    \/ \E i \in Units : GrepCount(i)
    \/ \E i \in Units : Store(i)
    \/ \E i \in Units : Done(i)
    \/ \E i \in Units : Unwind(i)
    \/ \E i \in Units : Crash(i)
    \/ \E i \in Units : Fatal(i)

SpecCountMain == Init /\ [][CountMainNext]_vars

\* C15 as claimed: the report the count-mode main persists has its analyses
\* in non-increasing order of countSum.
C15_CountMainSortedDescending ==
    file.written =>
        \A k \in 1..(Len(file.data.Applications) - 1) :
            ~(file.data.Applications[k].CountSum < file.data.Applications[k + 1].CountSum)

\* A line whose count part is there and is no decimal integer.
HasNonDecimalCount(line) ==
    /\ Index(line, <<COLON>>) # 0
    /\ PathPart(line) # <<>>
    /\ CountPart(line) # <<>>
    /\ ~IsDecimal(CountPart(line))

\* C16 as claimed: when some line of the output has a non-empty count part
\* that is no decimal integer, the count-mode parser returns the empty
\* result, whatever the lines before it gave.
C16_NonDecimalCountGivesEmpty ==
    (Parsed /\ \E k \in DOMAIN pin : HasNonDecimalCount(pin[k])) =>
        /\ ~pres.panicked
        /\ pres.val = <<>>

\* A line the claim says is ignored: its path part or its count part is
\* empty; a line without a colon has no count part.
HasEmptyPart(line) ==
    LET i == Index(line, <<COLON>>)
    IN  \/ i = 0
        \/ SubSeq(line, 1, i - 1) = <<>>
        \/ SubSeq(line, i + 1, Len(line)) = <<>>

\* The lines of the input that have both parts.
RECURSIVE WithBothParts(_)
WithBothParts(lines) ==
    IF lines = <<>> THEN <<>>
    ELSE (IF HasEmptyPart(lines[1]) THEN <<>> ELSE <<lines[1]>>)
             \o WithBothParts(Tail(lines))

\* C17 as claimed: lines with an empty path part or an empty count part,
\* the empty line and the line without a colon among them, never crash the
\* count-mode parser and change nothing in its result: the result is the
\* one the remaining lines give.
C17_EmptyPartLinesIgnored ==
    (Parsed /\ \E k \in DOMAIN pin : HasEmptyPart(pin[k])) =>
        /\ ~pres.panicked
        /\ pres = parseGrepOutputCount(Join(WithBothParts(pin), <<NL>>), BasePath)

(***************************************************************************)
(* The coordinator under fair scheduling: the Go scheduler lets main and   *)
(* every unit that can take a step take one eventually, and every external *)
(* command and the write return.                                           *)
(***************************************************************************)
MainStep == Launch \/ Wait \/ Sum \/ Sort \/ Write

UnitStep(i) ==
    /\ i \in Units
    /\ \/ AppendExcludes(i) \/ TempDir(i) \/ Clone(i) \/ Grep(i) \/ Store(i)
       \/ Done(i) \/ Unwind(i) \/ Crash(i) \/ Fatal(i)

FairSpec ==
    /\ Init /\ [][Next]_vars
    /\ WF_vars(MainStep)
    /\ \A i \in 1..MaxRepos : WF_vars(UnitStep(i))

\* The units whose deferred wg.Done() has run: the unit function has
\* returned, or has unwound in a panic.
Finished == {i \in Units : pc[i] \in {"finished", "crash"}}

\* C18: under fair scheduling every run ends with the report persisted or
\* the process aborted; the barrier counter is the number of units that have
\* not finished, so it is zero exactly when all of them have, and main is
\* past the barrier only when all of them have, with zero repositories too.
C18_TerminatesAndBarrierExact ==
    /\ [](wg = Cardinality(Units \ Finished))
    /\ [](PastBarrier => Finished = Units)
    /\ <>(proc = "aborted" \/ (proc = "exited" /\ file.written))

\* C18 witness: main waits at the barrier with one unit finished and the
\* other still working.
C18_Witness ==
    /\ proc = "running" /\ mainpc = "wait" /\ wg = 1
    /\ \E i, j \in Units : pc[i] = "finished" /\ pc[j] = "grep"

(***************************************************************************)
(* The persisted report against what the units computed.                   *)
(***************************************************************************)
\* The analysis of repository i as its unit computed it.
AnalysisOf(i) ==
    [Name |-> cfg.Repositories[i].Name,
     CountSum |-> sumTotalCountForGrepResults(result[i]),
     GrepResults |-> result[i]]

\* C19 as claimed: a persisted report has totalApplications equal to the
\* number of configured repositories, and its analyses are, in some order,
\* the analyses of the configured repositories, each exactly once and each
\* with the countSum and file matches computed for the repository it names.
C19_ReportIsPermutationOfAnalyses ==
    file.written =>
        /\ file.data.TotalApplications = Len(cfg.Repositories)
        /\ Len(file.data.Applications) = Len(cfg.Repositories)
        /\ \E f \in Permutations(Units) :
              \A k \in Units : file.data.Applications[k] = AnalysisOf(f[k])

====
